---- MODULE Spec2Model ----
(***************************************************************************)
(* network-watchdog.                                                       *)
(*   Spec          one recovery pass of wlan::connect_any_saved_wifi       *)
(*   ScenarioSpec  the pass in the end-to-end scenario                     *)
(*   SelectorSpec  wlan::filter_profiles_by_strategy on its own            *)
(*   WatchdogSpec  main: elevation, then the probe / radio / pass / sleep  *)
(*                 loop, with the pass inside it                           *)
(*   EnablerSpec   adapter::try_enable_wlan_adapter on its own             *)
(*   TerminationSpec  one pass, with the fairness of a running program     *)
(* The platform (wlanapi), the adapter enabler, the radio controller and   *)
(* the reachability probe are the environment: every call returns one of   *)
(* the results the call can produce, chosen nondeterministically.          *)
(***************************************************************************)
EXTENDS Naturals, Sequences, FiniteSets

\* ---------------------------------------------------------------- bounds
\* longest --profiles list of an Explicit strategy
MaxNames == 2

\* iterations of main's loop
MaxCycles == 2

\* ------------------------------------------------------- program constants
CHECK_INTERVAL_SECS == 60
POLL_MAX_WAIT_SECS == 30
POLL_INTERVAL_SECS == 2
ADAPTER_SETTLE_SECS == 3
SCAN_SETTLE_SECS == 2

\* ------------------------------------------------------------ input sets
Profiles == {"Office", "Home", "Guest"}
Guids == {"A", "B"}

RECURSIVE AllSeqs(_, _)
AllSeqs(S, n) == IF n = 0 THEN {<<>>} ELSE AllSeqs(S, n - 1) \cup [1..n -> S]

DistinctSeqs(S, n) ==
    {s \in AllSeqs(S, n) : \A i, j \in DOMAIN s : i # j => s[i] # s[j]}

Range(s) == {s[i] : i \in DOMAIN s}

Max(a, b) == IF a > b THEN a ELSE b

\* Results of WlanEnumInterfaces: lists of distinct interface GUIDs
IfaceLists == DistinctSeqs(Guids, Cardinality(Guids))
\* Results of WlanGetProfileList: profile names are unique within one interface
SavedLists == DistinctSeqs(Profiles, Cardinality(Profiles))
\* Results of WlanGetAvailableNetworkList
VisibleSets == SUBSET Profiles
\* WLAN_INTERFACE_STATE values, and None for a failed query
InterfaceStates == {"connected", "associating", "disconnected"}

None == [some |-> FALSE]
Some(v) == [some |-> TRUE, val |-> v]

\* enum ConnectStrategy
ScanOnly == [kind |-> "ScanOnly", names |-> <<>>]
All == [kind |-> "All", names |-> <<>>]
Explicit(names) == [kind |-> "Explicit", names |-> names]
Strategies == {ScanOnly, All} \cup {Explicit(n) : n \in AllSeqs(Profiles, MaxNames)}

VARIABLES
    strategy,        \* ConnectStrategy argument of the pass
    pc,              \* position in connect_any_saved_wifi
    result,          \* what the pass returned ("running" until it returns)
    restoredVia,     \* profile named by "Network restored via" at return Ok
    handle,          \* WlanClient handle: "unopened", "open", "closed"
    closes,          \* number of WlanCloseHandle calls
    usedAfterClose,  \* a platform call was made with a handle that is not open
    ifaceCalls,      \* platform queries made for the current interface
    enums,           \* outcome of each get_wlan_interfaces call, in order
    enablerCalls,    \* number of try_enable_wlan_adapter calls
    enablerResult,   \* what try_enable_wlan_adapter returned ("none" if not called)
    sleptSinceCall,  \* seconds of tokio sleep since the last platform call
    ifaces,          \* ifaces
    idx,             \* 1-based position of the current interface in ifaces
    saved,           \* saved
    available_names, \* available_names
    profiles,        \* profiles
    pidx,            \* 1-based position of the current profile in profiles
    tried,           \* tried
    round,           \* round of poll_wlan_connection_state
    state,           \* state read in the current poll round
    waited,          \* seconds slept in the current poll
    attempt,         \* what the calls made for the current profile returned
    ifaceStatus,     \* per visited interface, what its queries and filter gave
    plan,            \* candidates (selector output) of the interfaces visited
    log,             \* connect requests issued, in order
    scanResult,      \* what WlanScan returned for the current interface ("none": not called)
    openSessions,    \* WLAN handles of the process that are open
    once,            \* cli.once
    wpc,             \* position in main
    exitCode,        \* exit code of the process ("running" until it exits)
    cycles,          \* iterations of main's loop begun
    cycle,           \* what the current iteration has done
    adapter,         \* try_enable_wlan_adapter: position, commands run, return value
    assoc            \* network the current interface is associated with by this pass

vars == <<assoc, adapter, scanResult, openSessions, once, wpc, exitCode, cycles, cycle, strategy, pc, result, restoredVia, handle, closes, usedAfterClose, ifaceCalls,
          enums, enablerCalls, enablerResult, sleptSinceCall, ifaces, idx, saved,
          available_names, profiles, pidx, tried, round, state, waited, attempt,
          ifaceStatus, plan, log>>

NoAttempt == [accepted |-> "none", polled |-> "none", probed |-> "none"]

\* try_enable_wlan_adapter is not running
AdapterIdle == [pc |-> "idle", i |-> 0, attempts |-> <<>>, ret |-> "none"]

\* main's locals and position
watchdog == <<once, wpc, exitCode, cycles, cycle>>

\* An iteration of main's loop that has done nothing yet
NewCycle == [probe |-> "none", radio |-> "none", passes |-> 0, recovery |-> "none",
             sleptBefore |-> 0]

\* One pass: connect_any_saved_wifi has just been called by main
Init ==
    /\ strategy \in Strategies
    /\ once = FALSE
    /\ wpc = "recover"
    /\ exitCode = "running"
    /\ cycles = 1
    /\ cycle = [NewCycle EXCEPT !.probe = "fail", !.radio = "done", !.passes = 1]
    /\ adapter = AdapterIdle
    /\ assoc = "none"
    /\ scanResult = "none"
    /\ openSessions = 0
    /\ pc = "open"
    /\ result = "running"
    /\ restoredVia = "none"
    /\ handle = "unopened"
    /\ closes = 0
    /\ usedAfterClose = FALSE
    /\ ifaceCalls = {}
    /\ enums = <<>>
    /\ enablerCalls = 0
    /\ enablerResult = "none"
    /\ sleptSinceCall = 0
    /\ ifaces = <<>>
    /\ idx = 0
    /\ saved = <<>>
    /\ available_names = None
    /\ profiles = <<>>
    /\ pidx = 0
    /\ tried = 0
    /\ round = 0
    /\ state = None
    /\ waited = 0
    /\ attempt = NoAttempt
    /\ ifaceStatus = <<>>
    /\ plan = <<>>
    /\ log = <<>>

\* ------------------------------------------------------- pure functions

\* Faulty variant: one round too many (0..=rounds for 1..=rounds)
PollRoundsOneMore(max_wait_secs, interval_secs) ==
    Max(max_wait_secs \div interval_secs, 1) + 1

\* poll_wlan_connection_state: rounds = (max_wait_secs / interval_secs).max(1)
PollRounds(max_wait_secs, interval_secs) == Max(max_wait_secs \div interval_secs, 1)

\* saved.iter().filter(|p| keep.contains(p)).cloned().collect()
RECURSIVE FilterSeq(_, _)
FilterSeq(s, keep) ==
    IF s = <<>> THEN <<>>
    ELSE IF Head(s) \in keep THEN <<Head(s)>> \o FilterSeq(Tail(s), keep)
         ELSE FilterSeq(Tail(s), keep)

\* Faulty variant: ScanOnly does not apply the visibility filter
filter_ignoring_visible(sv, strat, avail) ==
    CASE strat.kind = "ScanOnly" -> sv
      [] strat.kind = "All" -> sv
      [] strat.kind = "Explicit" -> FilterSeq(sv, Range(strat.names))

\* Faulty variant: Explicit walks the name list and keeps the names that are saved
filter_in_names_order(sv, strat, avail) ==
    CASE strat.kind = "ScanOnly" ->
            IF avail.some THEN FilterSeq(sv, avail.val) ELSE <<>>
      [] strat.kind = "All" -> sv
      [] strat.kind = "Explicit" -> FilterSeq(strat.names, Range(sv))

\* Faulty variant: Explicit also drops the names that are not visible
filter_explicit_visible_only(sv, strat, avail) ==
    CASE strat.kind = "ScanOnly" ->
            IF avail.some THEN FilterSeq(sv, avail.val) ELSE <<>>
      [] strat.kind = "All" -> sv
      [] strat.kind = "Explicit" ->
            IF avail.some THEN FilterSeq(sv, Range(strat.names) \cap avail.val)
            ELSE FilterSeq(sv, Range(strat.names))

\* Faulty variant: ScanOnly without a visible set means no filter
filter_scan_none_is_all(sv, strat, avail) ==
    CASE strat.kind = "ScanOnly" ->
            IF avail.some THEN FilterSeq(sv, avail.val) ELSE sv
      [] strat.kind = "All" -> sv
      [] strat.kind = "Explicit" -> FilterSeq(sv, Range(strat.names))

\* Faulty variant: All applies the visible set when one is supplied
filter_all_by_visible(sv, strat, avail) ==
    CASE strat.kind = "ScanOnly" ->
            IF avail.some THEN FilterSeq(sv, avail.val) ELSE <<>>
      [] strat.kind = "All" -> IF avail.some THEN FilterSeq(sv, avail.val) ELSE sv
      [] strat.kind = "Explicit" -> FilterSeq(sv, Range(strat.names))

filter_profiles_by_strategy(sv, strat, avail) ==
    CASE strat.kind = "ScanOnly" ->
            IF avail.some THEN FilterSeq(sv, avail.val) ELSE <<>>
      [] strat.kind = "All" -> sv
      [] strat.kind = "Explicit" -> FilterSeq(sv, Range(strat.names))

\* ---------------------------------------------------- results of the calls
Err == [ok |-> FALSE]
Ok(v) == [ok |-> TRUE, val |-> v]

\* get_wlan_interfaces: Err on a non-zero status or a null list
get_wlan_interfaces == {Err} \cup {Ok(l) : l \in IfaceLists}
\* get_saved_profiles
get_saved_profiles == {Err} \cup {Ok(l) : l \in SavedLists}
\* get_available_network_names
get_available_network_names == {Err} \cup {Ok(n) : n \in VisibleSets}
\* get_wlan_interface_state: None on a non-zero status or null data
get_wlan_interface_state == {None} \cup {Some(s) : s \in InterfaceStates}

\* --------------------------------------------------------------- fragments
ifaceLocals == <<saved, available_names, profiles, pidx>>
pollLocals == <<round, state, waited>>
fallback == <<enums, enablerCalls, enablerResult>>
outcome == <<pc, result, restoredVia, handle, closes>>

\* A platform call made with client.handle
Call ==
    /\ usedAfterClose' = (usedAfterClose \/ handle # "open")
    /\ sleptSinceCall' = 0

\* A platform query about the current interface
IfaceCall(api) ==
    /\ ifaceCalls' = ifaceCalls \cup {api}
    /\ Call

\* Faulty variant: the handle is not released when the client goes out of scope
DropForgotten == UNCHANGED <<handle, closes, openSessions>>

\* impl Drop for WlanClient
Drop ==
    /\ handle' = "closed"
    /\ closes' = closes + 1
    /\ openSessions' = openSessions - 1

\* return from connect_any_saved_wifi once client exists: client is dropped
Return(r, via) ==
    /\ pc' = "done"
    /\ result' = r
    /\ restoredVia' = via
    /\ Drop

\* control moves on inside connect_any_saved_wifi
Goto(label) ==
    /\ pc' = label
    /\ UNCHANGED <<result, restoredVia, handle, closes, openSessions>>

\* Faulty variant: the enumeration is retried although the enabler reported failure
OnEnableFailedRetryEnum == Goto("settle")

\* try_enable_wlan_adapter() returned false: ifaces is still empty, bail
OnEnableFailed == Return("ErrNoInterface", "none")

\* Faulty variant: the error of get_saved_profiles is propagated with `?`
OnSavedFailedAbort == Return("ErrEnum", "none")

\* Err(e) => { warn; continue } of get_saved_profiles
OnSavedFailed == Goto("iface_loop")

\* Faulty variant: a rejected connect request leaves the profile loop (break for continue)
OnRejectedBreak == Goto("iface_loop")

\* Faulty variant: a rejected connect request is issued again for the same profile
OnRejectedRetry == Goto("connect")

\* if let Err(e) = client.connect_profile(..) { info; continue }
OnRejected == Goto("profile_loop")

\* Faulty variant: the pass is judged restored on the link state alone
OnConnectedSkipVerify == Return("Ok", profiles[pidx])

\* tracing::info!("WLAN connected, checking network..."): the poll returned true
OnConnected == Goto("verify")

\* Faulty variant: the return on a reachable probe is missing, the loop goes on
OnReachableContinue == Goto("profile_loop")

\* if test_network().await { return Ok(()) }
OnReachable == Return("Ok", profiles[pidx])

\* Faulty variant: only All skips the scan, Explicit scans too
AfterSavedScanUnlessAll == Goto(IF strategy.kind = "All" THEN "filter" ELSE "scan")

\* let available_names = match &strategy { ConnectStrategy::ScanOnly => {..}, _ => None }
AfterSaved == Goto(IF strategy.kind = "ScanOnly" THEN "scan" ELSE "filter")

\* Faulty variant: a pass that issued no connect request ends with a reason of its own
OnLoopEndNoCandidates ==
    Return(IF tried = 0 THEN "ErrNoCandidates" ELSE "ErrExhausted", "none")

\* after the interface loop: warn "Tried {} profile(s), none restored network"; bail
OnLoopEnd == Return("ErrExhausted", "none")

\* Faulty variant: tried is declared inside the interface loop and restarts there
CountAttemptPerInterface == tried' = pidx + 1

\* tried += 1
CountAttempt == tried' = tried + 1

\* The network behind the state a query returns. WlanConnect is asynchronous and
\* nothing disconnects the interface between candidates: "connected" is the
\* association the request for the current profile made, or the one an earlier
\* candidate of this interface left; "disconnected" and "associating" are no
\* association; a failed query tells nothing new.
Associated(s) ==
    IF s = Some("connected") THEN {profiles[pidx]} \cup ({assoc} \ {"none"})
    ELSE IF s = None THEN {assoc}
    ELSE {"none"}

\* ----------------------------------------------------------------- actions

\* WlanClient::new()?
OpenHandle ==
    /\ pc = "open"
    /\ \/ /\ handle' = "open"
          /\ openSessions' = openSessions + 1
          /\ pc' = "enum"
          /\ UNCHANGED result
       \/ /\ pc' = "done"
          /\ result' = "ErrOpen"
          /\ UNCHANGED <<handle, openSessions>>
    /\ UNCHANGED <<assoc, adapter, watchdog, scanResult, strategy, restoredVia, closes, usedAfterClose, ifaceCalls, fallback,
                   sleptSinceCall, ifaces, idx, ifaceLocals, tried, pollLocals, attempt, ifaceStatus,
                   plan, log>>

\* let mut ifaces = get_wlan_interfaces(client.handle)?; if ifaces.is_empty() ...
EnumInterfaces ==
    /\ pc = "enum"
    /\ Call
    /\ \E r \in get_wlan_interfaces :
          \/ /\ ~r.ok
             /\ enums' = Append(enums, "err")
             /\ Return("ErrEnum", "none")
             /\ UNCHANGED ifaces
          \/ /\ r.ok
             /\ enums' = Append(enums, IF r.val = <<>> THEN "empty" ELSE "found")
             /\ ifaces' = r.val
             /\ Goto(IF r.val = <<>> THEN "enable" ELSE "iface_loop")
    /\ UNCHANGED <<assoc, adapter, watchdog, scanResult, strategy, ifaceCalls, enablerCalls, enablerResult, idx, ifaceLocals,
                   tried, pollLocals, attempt, ifaceStatus, plan, log>>

\* if adapter::try_enable_wlan_adapter() { ... } ; if ifaces.is_empty() { bail }
TryEnableAdapter ==
    /\ pc = "enable"
    /\ enablerCalls' = enablerCalls + 1
    /\ \E ok \in BOOLEAN :
          \/ /\ ok
             /\ enablerResult' = "true"
             /\ Goto("settle")
          \/ /\ ~ok
             /\ enablerResult' = "false"
             /\ OnEnableFailed
    /\ UNCHANGED <<assoc, adapter, watchdog, scanResult, strategy, usedAfterClose, ifaceCalls, enums, sleptSinceCall, ifaces, idx,
                   ifaceLocals, tried, pollLocals, attempt, ifaceStatus, plan, log>>

\* tokio::time::sleep(3 s) before the re-enumeration
SettleAfterEnable ==
    /\ pc = "settle"
    /\ sleptSinceCall' = sleptSinceCall + ADAPTER_SETTLE_SECS
    /\ Goto("reenum")
    /\ UNCHANGED <<assoc, adapter, watchdog, scanResult, strategy, usedAfterClose, ifaceCalls, fallback, ifaces, idx, ifaceLocals,
                   tried, pollLocals, attempt, ifaceStatus, plan, log>>

\* ifaces = get_wlan_interfaces(client.handle)?; if ifaces.is_empty() { bail }
ReEnumInterfaces ==
    /\ pc = "reenum"
    /\ Call
    /\ \E r \in get_wlan_interfaces :
          \/ /\ ~r.ok
             /\ enums' = Append(enums, "err")
             /\ Return("ErrEnum", "none")
             /\ UNCHANGED ifaces
          \/ /\ r.ok
             /\ r.val = <<>>
             /\ enums' = Append(enums, "empty")
             /\ ifaces' = r.val
             /\ Return("ErrNoInterface", "none")
          \/ /\ r.ok
             /\ r.val # <<>>
             /\ enums' = Append(enums, "found")
             /\ ifaces' = r.val
             /\ Goto("iface_loop")
    /\ UNCHANGED <<assoc, adapter, watchdog, scanResult, strategy, ifaceCalls, enablerCalls, enablerResult, idx, ifaceLocals,
                   tried, pollLocals, attempt, ifaceStatus, plan, log>>

\* for (idx, iface) in ifaces.iter().enumerate() { ... } and, after the loop, bail
NextInterface ==
    /\ pc = "iface_loop"
    /\ \/ /\ idx < Len(ifaces)
          /\ idx' = idx + 1
          /\ Goto("get_saved")
          /\ ifaceStatus' = Append(ifaceStatus, "none")
          /\ ifaceCalls' = {}
          /\ scanResult' = "none"
          /\ assoc' = "none"
          /\ saved' = <<>>
          /\ available_names' = None
          /\ profiles' = <<>>
          /\ pidx' = 0
          /\ attempt' = NoAttempt
          /\ round' = 0
          /\ state' = None
          /\ waited' = 0
       \/ /\ idx >= Len(ifaces)
          /\ OnLoopEnd
          /\ UNCHANGED <<idx, ifaceStatus, ifaceCalls, scanResult, assoc, ifaceLocals,
                         pollLocals, attempt>>
    /\ UNCHANGED <<adapter, watchdog, strategy, usedAfterClose, fallback, sleptSinceCall, ifaces, tried,
                   plan, log>>

\* let saved = match get_saved_profiles(client.handle, iface) { Ok(p) => p, Err(e) => continue }
GetSavedProfiles ==
    /\ pc = "get_saved"
    /\ IfaceCall("WlanGetProfileList")
    /\ \E r \in get_saved_profiles :
          \/ /\ ~r.ok
             /\ ifaceStatus' = [ifaceStatus EXCEPT ![idx] = "saved_failed"]
             /\ OnSavedFailed
             /\ UNCHANGED saved
          \/ /\ r.ok
             /\ saved' = r.val
             /\ AfterSaved
             /\ UNCHANGED ifaceStatus
    /\ UNCHANGED <<assoc, adapter, watchdog, scanResult, strategy, fallback, ifaces, idx, available_names, profiles,
                   pidx, tried, pollLocals, attempt, plan, log>>

\* ConnectStrategy::ScanOnly => let _ = WlanScan(client.handle, iface, ...): the
\* status WlanScan returns is discarded
Scan ==
    /\ pc = "scan"
    /\ IfaceCall("WlanScan")
    /\ scanResult' \in {"ok", "err"}
    /\ Goto("scan_settle")
    /\ UNCHANGED <<assoc, adapter, watchdog, strategy, fallback, ifaces, idx, ifaceLocals, tried,
                   pollLocals, attempt, ifaceStatus, plan, log>>

\* tokio::time::sleep(2 s) after the scan request
ScanSettle ==
    /\ pc = "scan_settle"
    /\ sleptSinceCall' = sleptSinceCall + SCAN_SETTLE_SECS
    /\ Goto("get_avail")
    /\ UNCHANGED <<assoc, adapter, watchdog, scanResult, strategy, usedAfterClose, ifaceCalls, fallback, ifaces, idx, ifaceLocals,
                   tried, pollLocals, attempt, ifaceStatus, plan, log>>

\* match get_available_network_names(client.handle, iface, false) { Ok(n) => Some(n), Err(e) => continue }
GetAvailableNames ==
    /\ pc = "get_avail"
    /\ IfaceCall("WlanGetAvailableNetworkList")
    /\ \E r \in get_available_network_names :
          \/ /\ ~r.ok
             /\ ifaceStatus' = [ifaceStatus EXCEPT ![idx] = "visible_failed"]
             /\ Goto("iface_loop")
             /\ UNCHANGED available_names
          \/ /\ r.ok
             /\ available_names' = Some(r.val)
             /\ Goto("filter")
             /\ UNCHANGED ifaceStatus
    /\ UNCHANGED <<assoc, adapter, watchdog, scanResult, strategy, fallback, ifaces, idx, saved, profiles, pidx,
                   tried, pollLocals, attempt, plan, log>>

\* let profiles = filter_profiles_by_strategy(...); if profiles.is_empty() { continue }
\* saved, available_names and the status of WlanScan are not read after this line:
\* the model forgets them here
FilterProfiles ==
    /\ pc = "filter"
    /\ profiles' = filter_profiles_by_strategy(saved, strategy, available_names)
    /\ plan' = plan \o [i \in 1..Len(profiles') |->
                            [iface |-> ifaces[idx], profile |-> profiles'[i]]]
    /\ IF profiles' = <<>>
       THEN /\ ifaceStatus' = [ifaceStatus EXCEPT ![idx] = "no_candidates"]
            /\ Goto("iface_loop")
       ELSE /\ ifaceStatus' = [ifaceStatus EXCEPT ![idx] = "candidates"]
            /\ Goto("profile_loop")
    /\ saved' = <<>>
    /\ available_names' = None
    /\ scanResult' = "none"
    /\ UNCHANGED <<assoc, adapter, watchdog, strategy, usedAfterClose, ifaceCalls, fallback, sleptSinceCall, ifaces,
                   idx, pidx, tried, pollLocals, attempt, log>>

\* for profile in profiles { tried += 1; ... }
NextProfile ==
    /\ pc = "profile_loop"
    /\ \/ /\ pidx < Len(profiles)
          /\ pidx' = pidx + 1
          /\ CountAttempt
          /\ Goto("connect")
          /\ attempt' = NoAttempt
          /\ round' = 0
          /\ state' = None
          /\ waited' = 0
       \/ /\ pidx >= Len(profiles)
          /\ Goto("iface_loop")
          /\ UNCHANGED <<pidx, tried, attempt, pollLocals>>
    /\ UNCHANGED <<assoc, adapter, watchdog, scanResult, strategy, usedAfterClose, ifaceCalls, fallback, sleptSinceCall, ifaces,
                   idx, saved, available_names, profiles, ifaceStatus, plan, log>>

\* if let Err(e) = client.connect_profile(iface, &profile) { continue }
ConnectProfile ==
    /\ pc = "connect"
    /\ Call
    /\ log' = Append(log, [iface |-> ifaces[idx], profile |-> profiles[pidx]])
    /\ \E accepted \in BOOLEAN :
          IF accepted
          THEN /\ attempt' = [attempt EXCEPT !.accepted = "accepted"]
               /\ Goto("poll")
          ELSE /\ attempt' = [attempt EXCEPT !.accepted = "rejected"]
               /\ OnRejected
    /\ UNCHANGED <<assoc, adapter, watchdog, scanResult, strategy, ifaceCalls, fallback, ifaces, idx, ifaceLocals, tried,
                   pollLocals, ifaceStatus, plan>>

\* one round of poll_wlan_connection_state(client.handle, iface, 30, 2), and what
\* connect_any_saved_wifi does with the result when the poll returns
PollRound ==
    /\ pc = "poll"
    /\ round < PollRounds(POLL_MAX_WAIT_SECS, POLL_INTERVAL_SECS)
    /\ round' = round + 1
    /\ waited' = waited + POLL_INTERVAL_SECS
    /\ Call
    /\ \E s \in get_wlan_interface_state :
          /\ state' = s
          /\ assoc' \in Associated(s)
          /\ IF s = Some("connected")
             THEN /\ attempt' = [attempt EXCEPT !.polled = "connected"]
                  /\ OnConnected
             ELSE IF round' >= PollRounds(POLL_MAX_WAIT_SECS, POLL_INTERVAL_SECS)
                  THEN /\ attempt' = [attempt EXCEPT !.polled = "timeout"]
                       /\ Goto("profile_loop")
                  ELSE /\ Goto("poll")
                       /\ UNCHANGED attempt
    /\ UNCHANGED <<adapter, watchdog, scanResult, strategy, ifaceCalls, fallback, ifaces, idx, ifaceLocals, tried,
                   ifaceStatus, plan, log>>

\* if test_network().await { return Ok(()) } ... try next
TestNetwork ==
    /\ pc = "verify"
    /\ \E reachable \in BOOLEAN :
          IF reachable
          THEN /\ attempt' = [attempt EXCEPT !.probed = "true"]
               /\ OnReachable
          ELSE /\ attempt' = [attempt EXCEPT !.probed = "false"]
               /\ Goto("profile_loop")
    /\ UNCHANGED <<assoc, adapter, watchdog, scanResult, strategy, usedAfterClose, ifaceCalls, fallback, sleptSinceCall, ifaces,
                   idx, ifaceLocals, tried, pollLocals, ifaceStatus, plan, log>>

Next ==
    \/ OpenHandle
    \/ EnumInterfaces
    \/ TryEnableAdapter
    \/ SettleAfterEnable
    \/ ReEnumInterfaces
    \/ NextInterface
    \/ GetSavedProfiles
    \/ Scan
    \/ ScanSettle
    \/ GetAvailableNames
    \/ FilterProfiles
    \/ NextProfile
    \/ ConnectProfile
    \/ PollRound
    \/ TestNetwork

Spec == Init /\ [][Next]_vars

\* The end-to-end scenario of the specification: the environment answers as the
\* scenario says. Interfaces = [A] (at the first enumeration, or at the second after
\* the adapter was enabled); saved profiles on A = [Office, Home, Guest]; visible =
\* {Home, Guest}; strategy ScanOnly; connect/poll reaches "connected" only for Guest;
\* the probe is true once Guest is connected.
ScenarioEnv ==
    /\ strategy = ScanOnly
    /\ result \notin {"ErrOpen", "ErrEnum", "ErrNoInterface"}
    /\ ifaces \in {<<>>, <<"A">>}
    /\ \A k \in DOMAIN ifaceStatus : ifaceStatus[k] \notin {"saved_failed", "visible_failed"}
    /\ saved \in {<<>>, <<"Office", "Home", "Guest">>}
    /\ pc \in {"scan", "scan_settle", "get_avail", "filter"} => saved # <<>>
    /\ available_names.some => available_names.val = {"Home", "Guest"}
    /\ pidx >= 1 =>
          IF profiles[pidx] = "Guest"
          THEN /\ attempt.accepted # "rejected"
               /\ attempt.polled # "timeout"
               /\ attempt.probed # "false"
          ELSE attempt.polled # "connected"

ScenarioNext == Next /\ ScenarioEnv'

ScenarioInit == Init /\ strategy = ScanOnly

ScenarioSpec == ScenarioInit /\ [][ScenarioNext]_vars

\* filter_profiles_by_strategy on its own: the arguments are any saved list, any
\* strategy and any Option of a visible set; Select is a call, SelectAgain a second
\* call with the same arguments. The function takes any &[String]: the lists here may
\* repeat a name.
SelectorInit ==
    /\ strategy \in Strategies
    /\ once = FALSE
    /\ wpc = "recover"
    /\ exitCode = "running"
    /\ cycles = 1
    /\ cycle = [NewCycle EXCEPT !.probe = "fail", !.radio = "done", !.passes = 1]
    /\ adapter = AdapterIdle
    /\ assoc = "none"
    /\ scanResult = "none"
    /\ openSessions = 0
    /\ saved \in AllSeqs(Profiles, Cardinality(Profiles))
    /\ available_names \in {None} \cup {Some(n) : n \in VisibleSets}
    /\ pc = "select"
    /\ result = "running"
    /\ restoredVia = "none"
    /\ handle = "unopened"
    /\ closes = 0
    /\ usedAfterClose = FALSE
    /\ ifaceCalls = {}
    /\ enums = <<>>
    /\ enablerCalls = 0
    /\ enablerResult = "none"
    /\ sleptSinceCall = 0
    /\ ifaces = <<>>
    /\ idx = 0
    /\ profiles = <<>>
    /\ pidx = 0
    /\ tried = 0
    /\ round = 0
    /\ state = None
    /\ waited = 0
    /\ attempt = NoAttempt
    /\ ifaceStatus = <<>>
    /\ plan = <<>>
    /\ log = <<>>

Select ==
    /\ pc = "select"
    /\ pc' = "selected"
    /\ profiles' = filter_profiles_by_strategy(saved, strategy, available_names)
    /\ UNCHANGED <<assoc, adapter, watchdog, scanResult, openSessions, strategy, result, restoredVia, handle, closes, usedAfterClose, ifaceCalls,
                   fallback, sleptSinceCall, ifaces, idx, saved, available_names, pidx,
                   tried, pollLocals, attempt, ifaceStatus, plan, log>>

SelectAgain ==
    /\ pc = "selected"
    /\ pc' = "selected_again"
    /\ profiles' = filter_profiles_by_strategy(saved, strategy, available_names)
    /\ UNCHANGED <<assoc, adapter, watchdog, scanResult, openSessions, strategy, result, restoredVia, handle, closes, usedAfterClose, ifaceCalls,
                   fallback, sleptSinceCall, ifaces, idx, saved, available_names, pidx,
                   tried, pollLocals, attempt, ifaceStatus, plan, log>>

SelectorNext == Select \/ SelectAgain

SelectorSpec == SelectorInit /\ [][SelectorNext]_vars

\* ------------------------------------------------ try_enable_wlan_adapter
WLAN_INTERFACE_NAMES == <<"Wi-Fi", "WLAN", "Wireless", "Wireless Network Connection">>

\* Command::output(): Ok(out) with a success status, Ok(out) with another status,
\* Err(e) when the command could not be started
CommandOutcomes == {"success", "failed", "not_started"}

Attempted(cmd, out) == Append(adapter.attempts, [cmd |-> cmd, out |-> out])

\* return true / return false
EnablerReturn(att, b) ==
    adapter' = [adapter EXCEPT !.attempts = att, !.pc = "returned", !.ret = b]

\* Faulty variant: a command that cannot be started ends the enabler
OnNotStartedGiveUp(att) == EnablerReturn(att, "false")

\* Err(e) => { tracing::info!("Failed to run ..: {}", e) }: falls through
OnNotStarted(att) == adapter' = [adapter EXCEPT !.attempts = att, !.pc = "netsh"]

\* try_enable_wlan_adapter on its own, as called by connect_any_saved_wifi after an
\* empty enumeration
EnablerInit ==
    /\ strategy = ScanOnly
    /\ adapter = [AdapterIdle EXCEPT !.pc = "powershell"]
    /\ assoc = "none"
    /\ once = FALSE
    /\ wpc = "recover"
    /\ exitCode = "running"
    /\ cycles = 1
    /\ cycle = [NewCycle EXCEPT !.probe = "fail", !.radio = "done", !.passes = 1]
    /\ scanResult = "none"
    /\ openSessions = 1
    /\ pc = "enable"
    /\ result = "running"
    /\ restoredVia = "none"
    /\ handle = "open"
    /\ closes = 0
    /\ usedAfterClose = FALSE
    /\ ifaceCalls = {}
    /\ enums = <<"empty">>
    /\ enablerCalls = 1
    /\ enablerResult = "none"
    /\ sleptSinceCall = 0
    /\ ifaces = <<>>
    /\ idx = 0
    /\ saved = <<>>
    /\ available_names = None
    /\ profiles = <<>>
    /\ pidx = 0
    /\ tried = 0
    /\ round = 0
    /\ state = None
    /\ waited = 0
    /\ attempt = NoAttempt
    /\ ifaceStatus = <<>>
    /\ plan = <<>>
    /\ log = <<>>

enablerFrame ==
    <<assoc, watchdog, scanResult, openSessions, strategy, pc, result, restoredVia, handle, closes,
      usedAfterClose, ifaceCalls, fallback, sleptSinceCall, ifaces, idx, ifaceLocals,
      tried, pollLocals, attempt, ifaceStatus, plan, log>>

\* 1. PowerShell: Get-NetAdapter | Where-Object InterfaceType -eq 71 | Enable-NetAdapter
RunPowerShell ==
    /\ adapter.pc = "powershell"
    /\ \E out \in CommandOutcomes :
          CASE out = "success" -> EnablerReturn(Attempted(<<"powershell", "Enable-NetAdapter">>, out), "true")
            [] out = "failed" ->
                  adapter' = [adapter EXCEPT !.attempts = Attempted(<<"powershell", "Enable-NetAdapter">>, out),
                                             !.pc = "netsh"]
            [] out = "not_started" -> OnNotStarted(Attempted(<<"powershell", "Enable-NetAdapter">>, out))
    /\ UNCHANGED enablerFrame

\* for name in WLAN_INTERFACE_NAMES { .. } warn; false
NextName ==
    /\ adapter.pc = "netsh"
    /\ IF adapter.i < Len(WLAN_INTERFACE_NAMES)
       THEN adapter' = [adapter EXCEPT !.i = @ + 1, !.pc = "netsh_run"]
       ELSE EnablerReturn(adapter.attempts, "false")
    /\ UNCHANGED enablerFrame

\* netsh interface set interface name="<name>" admin=enable
RunNetsh ==
    /\ adapter.pc = "netsh_run"
    /\ \E out \in CommandOutcomes :
          LET cmd == <<"netsh", WLAN_INTERFACE_NAMES[adapter.i]>> IN
          CASE out = "success" -> EnablerReturn(Attempted(cmd, out), "true")
            [] out = "failed" ->
                  adapter' = [adapter EXCEPT !.attempts = Attempted(cmd, out), !.pc = "netsh"]
            [] out = "not_started" -> OnNotStarted(Attempted(cmd, out))
    /\ UNCHANGED enablerFrame

EnablerNext == RunPowerShell \/ NextName \/ RunNetsh

EnablerSpec == EnablerInit /\ [][EnablerNext]_vars

\* ------------------------------------------------------------------- main
\* Cli::connect_strategy
connect_strategy(cli) ==
    IF cli.profiles.some /\ cli.profiles.val # <<>>
    THEN Explicit(cli.profiles.val)
    ELSE IF cli.all THEN All ELSE ScanOnly

\* --all and --profiles as given on the command line
CliInputs == [all : BOOLEAN, profiles : {None, Some(<<>>), Some(<<"Home">>)}]

\* the locals of connect_any_saved_wifi at its entry (label "open"), and once its
\* future is dropped (label "idle")
PassLocals(label) ==
    /\ pc' = label
    /\ assoc' = "none"
    /\ result' = "running"
    /\ restoredVia' = "none"
    /\ handle' = "unopened"
    /\ closes' = 0
    /\ usedAfterClose' = FALSE
    /\ ifaceCalls' = {}
    /\ scanResult' = "none"
    /\ enums' = <<>>
    /\ enablerCalls' = 0
    /\ enablerResult' = "none"
    /\ sleptSinceCall' = 0
    /\ ifaces' = <<>>
    /\ idx' = 0
    /\ saved' = <<>>
    /\ available_names' = None
    /\ profiles' = <<>>
    /\ pidx' = 0
    /\ tried' = 0
    /\ round' = 0
    /\ state' = None
    /\ waited' = 0
    /\ attempt' = NoAttempt
    /\ ifaceStatus' = <<>>
    /\ plan' = <<>>
    /\ log' = <<>>

passVars == <<assoc, pc, result, restoredVia, handle, closes, usedAfterClose, ifaceCalls,
              scanResult, enums, enablerCalls, enablerResult, sleptSinceCall, ifaces, idx,
              saved, available_names, profiles, pidx, tried, round, state, waited,
              attempt, ifaceStatus, plan, log>>

\* return from main, or std::process::exit
Exit(code) ==
    /\ wpc' = "exited"
    /\ exitCode' = code

\* main goes on
Continue(label) ==
    /\ wpc' = label
    /\ UNCHANGED exitCode

WatchdogInit ==
    /\ once \in BOOLEAN
    /\ adapter = AdapterIdle
    /\ assoc = "none"
    /\ \E cli \in CliInputs : strategy = connect_strategy(cli)
    /\ wpc = "admin"
    /\ exitCode = "running"
    /\ cycles = 0
    /\ cycle = NewCycle
    /\ openSessions = 0
    /\ pc = "idle"
    /\ result = "running"
    /\ restoredVia = "none"
    /\ handle = "unopened"
    /\ closes = 0
    /\ usedAfterClose = FALSE
    /\ ifaceCalls = {}
    /\ scanResult = "none"
    /\ enums = <<>>
    /\ enablerCalls = 0
    /\ enablerResult = "none"
    /\ sleptSinceCall = 0
    /\ ifaces = <<>>
    /\ idx = 0
    /\ saved = <<>>
    /\ available_names = None
    /\ profiles = <<>>
    /\ pidx = 0
    /\ tried = 0
    /\ round = 0
    /\ state = None
    /\ waited = 0
    /\ attempt = NoAttempt
    /\ ifaceStatus = <<>>
    /\ plan = <<>>
    /\ log = <<>>

\* admin::ensure_admin_or_elevate()?: an administrator goes on into the loop; otherwise
\* the process re-launches itself through gsudo and exits with the child's status
\* (1 when it has none), or main returns the error of a gsudo that did not start
EnsureAdmin ==
    /\ wpc = "admin"
    /\ \/ /\ Continue("probe")
          /\ cycles' = 1
       \/ /\ \E code \in {"0", "nonzero"} : Exit(code)
          /\ UNCHANGED cycles
       \/ /\ Exit("nonzero")
          /\ UNCHANGED cycles
    /\ UNCHANGED <<adapter, once, cycle, strategy, openSessions, passVars>>

\* Faulty variant: the error of the radio controller is propagated with `?`
OnRadioFailedAbort == Exit("nonzero")

\* if let Err(e) = radio::turn_on_wifi_radio().await { warn "continuing with saved profiles" }
OnRadioFailed == Continue("call")

\* Faulty variant: a failed pass is run again at once, without sleep or probe
AfterPassRetryOnFailure ==
    IF result # "Ok" /\ cycle.passes < 2 THEN Continue("call")
    ELSE IF once THEN Exit("0") ELSE Continue("sleep")

\* Faulty variant: --once returns the result of the pass as the result of main
AfterPassExitWithResult ==
    IF once THEN Exit(IF result = "Ok" THEN "0" ELSE "nonzero") ELSE Continue("sleep")

\* if cli.once { return Ok(()) }; sleep(check_interval)  (after the pass)
AfterPass == IF once THEN Exit("0") ELSE Continue("sleep")

\* if network::test_network(..).await { if cli.once { return Ok(()) } sleep; continue }
Probe ==
    /\ wpc = "probe"
    /\ \E reachable \in BOOLEAN :
          IF reachable
          THEN /\ cycle' = [cycle EXCEPT !.probe = "ok"]
               /\ IF once THEN Exit("0") ELSE Continue("sleep")
          ELSE /\ cycle' = [cycle EXCEPT !.probe = "fail"]
               /\ Continue("radio")
    /\ UNCHANGED <<adapter, once, cycles, strategy, openSessions, passVars>>

\* radio::turn_on_wifi_radio().await
TurnOnRadio ==
    /\ wpc = "radio"
    /\ \E r \in {"ok", "err"} :
          /\ cycle' = [cycle EXCEPT !.radio = r]
          /\ IF r = "err" THEN OnRadioFailed ELSE Continue("call")
    /\ UNCHANGED <<adapter, once, cycles, strategy, openSessions, passVars>>

\* wlan::connect_any_saved_wifi(closure, strategy.clone()): the call. The Result of
\* the radio controller went out of scope with its if let.
StartPass ==
    /\ wpc = "call"
    /\ Continue("recover")
    /\ cycle' = [cycle EXCEPT !.radio = "done", !.passes = @ + 1]
    /\ PassLocals("open")
    /\ UNCHANGED <<adapter, once, cycles, strategy, openSessions>>

\* .await returned: match result { Ok => info, Err => warn }; --once returns, the
\* loop sleeps. The future and its locals are gone.
PassReturned ==
    /\ wpc = "recover"
    /\ pc = "done"
    /\ cycle' = [cycle EXCEPT !.recovery = IF result = "Ok" THEN "restored" ELSE "failed"]
    /\ AfterPass
    /\ PassLocals("idle")
    /\ UNCHANGED <<adapter, once, cycles, strategy, openSessions>>

\* sleep(Duration::from_secs(check_interval)).await, and the next iteration of loop
Sleep ==
    /\ wpc = "sleep"
    /\ cycles < MaxCycles
    /\ Continue("probe")
    /\ cycles' = cycles + 1
    /\ cycle' = [NewCycle EXCEPT !.sleptBefore = CHECK_INTERVAL_SECS]
    /\ UNCHANGED <<adapter, once, strategy, openSessions, passVars>>

WatchdogNext ==
    \/ EnsureAdmin
    \/ Probe
    \/ TurnOnRadio
    \/ StartPass
    \/ Next
    \/ PassReturned
    \/ Sleep

WatchdogSpec == WatchdogInit /\ [][WatchdogNext]_vars

\* The pass with every call returning: the platform calls are synchronous, the
\* sleeps and the probe are awaited futures that complete, so the pass takes its next
\* step whenever it has one. The strategies are those of the command lines of
\* CliInputs.
TerminationInit == Init /\ \E cli \in CliInputs : strategy = connect_strategy(cli)

TerminationSpec == TerminationInit /\ [][Next]_vars /\ WF_vars(Next)

TypeOK ==
    /\ strategy \in Strategies
    /\ pc \in {"open", "enum", "enable", "settle", "reenum", "iface_loop", "get_saved",
               "scan", "scan_settle", "get_avail", "filter", "profile_loop", "connect",
               "poll", "verify", "done"}
    /\ result \in {"running", "Ok", "ErrOpen", "ErrEnum", "ErrNoInterface", "ErrExhausted"}
    /\ (pc = "done") = (result # "running")
    /\ handle \in {"unopened", "open", "closed"}
    /\ ifaces \in IfaceLists
    /\ idx \in 0..Len(ifaces)
    /\ Len(ifaceStatus) = idx
    /\ saved \in SavedLists
    /\ pidx \in 0..Len(profiles)
    /\ tried = Len(log) + (IF pc = "connect" THEN 1 ELSE 0)
    /\ scanResult \in {"none", "ok", "err"}
    /\ openSessions \in 0..1
    /\ once \in BOOLEAN
    /\ wpc \in {"admin", "probe", "radio", "call", "recover", "sleep", "exited"}
    /\ exitCode \in {"running", "0", "nonzero"}
    /\ cycles \in 0..MaxCycles
    /\ assoc \in Profiles \cup {"none"}

\* ------------------------------------------------------------ properties
Last(s) == s[Len(s)]

\* C1: a pass reports success only for the profile being attempted, after its
\* connect request was accepted, its poll saw "connected" and the probe made after
\* that returned true; the probe is never made for a profile whose connect request
\* was rejected or whose poll timed out.
C1_SuccessOnlyAfterVerify ==
    /\ result = "Ok" =>
          /\ attempt = [accepted |-> "accepted", polled |-> "connected", probed |-> "true"]
          /\ pidx \in 1..Len(profiles)
          /\ restoredVia = profiles[pidx]
          /\ log # <<>>
          /\ Last(log) = [iface |-> ifaces[idx], profile |-> restoredVia]
    /\ pc = "verify" => attempt.accepted = "accepted" /\ attempt.polled = "connected"
    /\ attempt.probed # "none" =>
          attempt.accepted = "accepted" /\ attempt.polled = "connected"
    /\ attempt.polled # "none" => attempt.accepted = "accepted"

\* C1 witness: a pass restored the network by its second or later connect request
C1_Witness == result = "Ok" /\ Len(log) >= 2 /\ attempt.probed = "true"

\* C2: once the probe has returned true the pass has returned Ok for the profile of
\* the last connect request, and a pass that has returned takes no further step
\* (no connect request, state query or probe).
C2_ReachableEndsPass ==
    /\ [](attempt.probed = "true" =>
             /\ pc = "done"
             /\ result = "Ok"
             /\ restoredVia = Last(log).profile
             /\ Last(log).iface = ifaces[idx])
    /\ [][pc # "done"]_vars

\* C2 witness: the probe returned true while a later profile and a later interface
\* were still untried
C2_Witness ==
    /\ attempt.probed = "true"
    /\ pidx < Len(profiles)
    /\ idx < Len(ifaces)

\* C3: in the end-to-end scenario the pass ends in success for Guest; no connect
\* request is ever issued for Office, and exactly one is issued for Home, before the
\* one for Guest.
C3_Scenario ==
    /\ \A i \in DOMAIN log : log[i].profile # "Office"
    /\ Len(log) <= 2
    /\ Len(log) >= 1 => log[1] = [iface |-> "A", profile |-> "Home"]
    /\ Len(log) = 2 => log[2] = [iface |-> "A", profile |-> "Guest"]
    /\ pc = "done" =>
          /\ result = "Ok"
          /\ restoredVia = "Guest"
          /\ Len(log) = 2

\* C3 witness: the scenario's pass has returned success for Guest
C3_Witness ==
    /\ pc = "done"
    /\ result = "Ok"
    /\ restoredVia = "Guest"
    /\ log = <<[iface |-> "A", profile |-> "Home"], [iface |-> "A", profile |-> "Guest"]>>

\* C4: the adapter enabler is called only after an empty first enumeration, and at
\* most once; the interfaces are enumerated a second time exactly when the enabler
\* returned true, after a 3 s sleep, and never a third time; when the list is still
\* empty (the enabler returned false, or the second enumeration was empty) the pass
\* returns "no interface" without any profile-list, scan, visible-list or connect call.
C4_AdapterFallback ==
    /\ enablerCalls <= 1
    /\ (enablerCalls = 1) = (enablerResult # "none")
    /\ enablerCalls = 1 => enums # <<>> /\ enums[1] = "empty"
    /\ (enums # <<>> /\ enums[1] = "empty" /\ pc # "enable") => enablerCalls = 1
    /\ Len(enums) <= 2
    /\ Len(enums) = 2 => enablerResult = "true"
    /\ (enablerResult = "true" /\ pc \notin {"settle", "reenum"}) => Len(enums) = 2
    /\ pc = "reenum" => sleptSinceCall = 3
    /\ enablerResult = "false" => result = "ErrNoInterface"
    /\ (Len(enums) = 2 /\ enums[2] = "empty") => result = "ErrNoInterface"
    /\ result = "ErrNoInterface" =>
          /\ enums[1] = "empty"
          /\ enablerResult = "false" \/ enums = <<"empty", "empty">>
          /\ ifaces = <<>>
          /\ idx = 0
          /\ ifaceCalls = {}
          /\ tried = 0
          /\ log = <<>>

\* C4 witness: the enabler returned true and the second enumeration was empty too
C4_Witness ==
    /\ result = "ErrNoInterface"
    /\ enablerResult = "true"
    /\ enums = <<"empty", "empty">>

\* C5: a pass whose WlanOpenHandle succeeded calls WlanCloseHandle exactly once, at
\* its return and not before, on every exit path; no platform call is made with a
\* handle that is not open; nothing is released when the open failed.
C5_HandleReleasedOnce ==
    /\ closes <= 1
    /\ (handle = "closed") = (closes = 1)
    /\ ~usedAfterClose
    /\ pc \notin {"open", "done"} => handle = "open"
    /\ (pc = "done" /\ result # "ErrOpen") => handle = "closed"
    /\ result = "ErrOpen" => handle = "unopened"
    /\ pc = "open" => handle = "unopened"

\* C5 witness: the pass returned on the error of the retried enumeration
C5_Witness ==
    /\ pc = "done"
    /\ result = "ErrEnum"
    /\ Len(enums) = 2
    /\ closes = 1

\* C6: after an accepted connect request the state is queried at most 15 times, each
\* query after a 2 s sleep; the poll ends at the first query that returns connected
\* (also when it is the 15th) and otherwise after the 15th; a failed query or a
\* non-connected state neither ends the poll early nor counts as connected.
C6_PollBounded ==
    /\ round <= 15
    /\ waited = 2 * round
    /\ round > 0 => attempt.accepted = "accepted"
    /\ pc = "poll" =>
          /\ attempt.accepted = "accepted"
          /\ attempt.polled = "none"
          /\ round < 15
          /\ state # Some("connected")
    /\ (attempt.accepted = "accepted" /\ pc # "poll") => attempt.polled # "none"
    /\ attempt.polled = "connected" => round \in 1..15 /\ state = Some("connected")
    /\ attempt.polled = "timeout" => round = 15 /\ state # Some("connected")

\* C6 witness: the 15th query is the first to return connected
C6_Witness ==
    /\ attempt.polled = "connected"
    /\ round = 15
    /\ pc = "verify"

\* Position of x in a sequence of distinct elements
Pos(s, x) == CHOOSE k \in DOMAIN s : s[k] = x

\* p holds elements of s, each once, in the order they have in s
InOrderOf(p, s) ==
    /\ Range(p) \subseteq Range(s)
    /\ \A i, j \in DOMAIN p : i < j => Pos(s, p[i]) < Pos(s, p[j])

\* Number of profiles of the current interface a connect request was issued for
Requested == IF pc = "connect" THEN pidx - 1 ELSE pidx

\* The connect requests issued on interface g, in order
RECURSIVE RequestsOn(_, _)
RequestsOn(l, g) ==
    IF l = <<>> THEN <<>>
    ELSE IF Head(l).iface = g THEN <<Head(l).profile>> \o RequestsOn(Tail(l), g)
         ELSE RequestsOn(Tail(l), g)

\* C7: connect requests follow the enumeration order: the requests on an interface
\* enumerated earlier all precede those on one enumerated later; the candidates of
\* an interface are in the order of its saved list whatever the strategy, the name
\* list and the visible set are; and the requests on an interface are issued in the
\* order of its candidates whatever the earlier outcomes were.
C7_EnumerationOrder ==
    /\ [](/\ \A i \in DOMAIN log : log[i].iface \in {ifaces[k] : k \in 1..idx}
          /\ \A i, j \in DOMAIN log :
                i < j => Pos(ifaces, log[i].iface) <= Pos(ifaces, log[j].iface)
          /\ idx >= 1 =>
                RequestsOn(log, ifaces[idx]) = SubSeq(profiles, 1, Requested))
    /\ [][pc = "filter" => InOrderOf(profiles', saved)]_vars
    /\ [][\E n \in 0..1 : Len(log') = Len(log) + n /\ SubSeq(log', 1, Len(log)) = log]_vars

\* C7 witness: two requests on the first interface in saved order, opposite to the
\* order of the Explicit names, then a request on the second interface
C7_Witness ==
    /\ strategy.kind = "Explicit"
    /\ Len(strategy.names) = 2
    /\ Len(log) = 3
    /\ log[1].profile = strategy.names[2]
    /\ log[2].profile = strategy.names[1]
    /\ log[1].profile # log[2].profile
    /\ log[2].iface = log[1].iface
    /\ log[3].iface # log[1].iface

\* C8: at most one connect request is issued per (interface, profile name) in a pass,
\* whatever the attempt's outcome, also when the Explicit list repeats a name
\* (the saved-profile names of one interface are unique, as the platform gives them).
C8_NoRetry == \A i, j \in DOMAIN log : i # j => log[i] # log[j]

\* C8 witness: the Explicit list names one profile twice, the profile was requested
\* on both interfaces and restored nothing
C8_Witness ==
    /\ strategy.kind = "Explicit"
    /\ Len(strategy.names) = 2
    /\ strategy.names[1] = strategy.names[2]
    /\ result = "ErrExhausted"
    /\ Len(log) = 2
    /\ log[1].profile = log[2].profile

IfaceQueryFailed(k) == ifaceStatus[k] \in {"saved_failed", "visible_failed"}

\* C9: an interface whose saved-profile query or (ScanOnly) visible-network query
\* failed gets no connect request, and the failure does not end the pass: the loop
\* is at its head again, and goes on to the next interface whenever there is one.
C9_InterfaceSkipped ==
    /\ [](\A k \in 1..idx :
             IfaceQueryFailed(k) =>
                /\ \A i \in DOMAIN log : log[i].iface # ifaces[k]
                /\ ifaceStatus[k] = "visible_failed" => strategy.kind = "ScanOnly"
                /\ k = idx =>
                      \/ pc = "iface_loop"
                      \/ pc = "done" /\ result = "ErrExhausted" /\ idx = Len(ifaces))
    /\ [][(pc = "iface_loop" /\ idx < Len(ifaces)) =>
             (pc' = "get_saved" /\ idx' = idx + 1 /\ log' = log)]_vars

\* C9 witness: the visible-network query of the first interface failed and a profile
\* of the second interface has connected
C9_Witness ==
    /\ idx = 2
    /\ ifaceStatus[1] = "visible_failed"
    /\ pc = "verify"

IsPrefix(s, u) == Len(s) <= Len(u) /\ SubSeq(u, 1, Len(s)) = s

\* C10: a rejected connect request, a poll timeout or a failed verification ends only
\* that profile's attempt: the remaining candidates of the interface are still to be
\* requested, an interface is left only when all its candidates were requested, and
\* the pass ends exhausted only when a connect request was issued for every candidate
\* of every interface.
C10_ProfileSkipped ==
    /\ IsPrefix(log, plan)
    /\ pc = "profile_loop" =>
          /\ Len(plan) - Len(log) = Len(profiles) - pidx
          /\ pidx >= 1 =>
                \/ attempt.accepted = "rejected"
                \/ attempt.polled = "timeout"
                \/ attempt.probed = "false"
    /\ pc = "iface_loop" => log = plan
    /\ result = "ErrExhausted" =>
          /\ log = plan
          /\ idx = Len(ifaces)
          /\ \A k \in 1..idx : ifaceStatus[k] # "none"

\* C10 witness: three or more candidates were requested, the last one connected and
\* failed the verification, and the pass ended exhausted
C10_Witness ==
    /\ result = "ErrExhausted"
    /\ Len(log) >= 3
    /\ attempt.probed = "false"

C12_TriedCountsRequests ==
    /\ tried = Len(log) + (IF pc = "connect" THEN 1 ELSE 0)
    /\ result = "ErrExhausted" =>
          /\ tried = Len(log)
          /\ tried = Len(plan)
          /\ (tried = 0) = (log = <<>>)

\* C12 witness: exhaustion after requests on two interfaces, the last one rejected
C12_Witness ==
    /\ result = "ErrExhausted"
    /\ tried >= 2
    /\ log[1].iface # log[tried].iface
    /\ attempt.accepted = "rejected"

\* p is s with exactly the elements that are in keep, in the order of s
KeptOf(p, s, keep) ==
    \E f \in [1..Len(p) -> 1..Len(s)] :
        /\ \A i, j \in 1..Len(p) : i < j => f[i] < f[j]
        /\ \A i \in 1..Len(p) : p[i] = s[f[i]]
        /\ {f[i] : i \in 1..Len(p)} = {k \in 1..Len(s) : s[k] \in keep}

\* C13: under Explicit(names) the selector returns exactly the saved profiles whose
\* name occurs in names, each once and in the order of the saved list, whatever the
\* visible set passed; the result is empty when names is empty or disjoint from the
\* saved list.
C13_ExplicitSelects ==
    (pc \in {"selected", "selected_again"} /\ strategy.kind = "Explicit") =>
        /\ KeptOf(profiles, saved, Range(strategy.names))
        /\ Range(strategy.names) \cap Range(saved) = {} => profiles = <<>>
        /\ strategy.names = <<>> => profiles = <<>>

\* C13 witness: names in the opposite order of the saved list, a visible set that
\* holds neither name, and the result in saved order
C13_Witness ==
    /\ pc = "selected"
    /\ strategy = Explicit(<<"Guest", "Office">>)
    /\ saved = <<"Office", "Home", "Guest">>
    /\ available_names = Some({"Home"})
    /\ profiles = <<"Office", "Guest">>

\* C14: under ScanOnly the selector returns exactly the saved profiles whose name is
\* in the supplied visible set, in saved-list order, and the empty list when no
\* visible set is supplied.
C14_ScanOnlySelects ==
    (pc \in {"selected", "selected_again"} /\ strategy.kind = "ScanOnly") =>
        IF available_names.some
        THEN KeptOf(profiles, saved, available_names.val)
        ELSE profiles = <<>>

\* C14 witness: no visible set supplied, a non-empty saved list, an empty result
C14_Witness ==
    /\ pc = "selected"
    /\ strategy = ScanOnly
    /\ available_names = None
    /\ Len(saved) = 3
    /\ profiles = <<>>

C16_RecoverIffUnreachable ==
    /\ [](/\ wpc \in {"radio", "call", "recover"} => cycle.probe = "fail"
          /\ cycle.radio # "none" => cycle.probe = "fail"
          /\ wpc = "call" => cycle.radio \in {"ok", "err"} /\ cycle.passes = 0
          /\ cycle.passes >= 1 => cycle.probe = "fail" /\ cycle.radio = "done"
          /\ wpc = "recover" => cycle.passes = 1
          /\ (cycle.probe = "fail" /\ wpc \in {"sleep", "exited"}) =>
                cycle.passes = 1 /\ cycle.recovery # "none"
          /\ cycle.probe # "fail" =>
                /\ cycle.radio = "none"
                /\ cycle.passes = 0
                /\ pc = "idle"
                /\ handle = "unopened"
                /\ openSessions = 0
                /\ enablerCalls = 0
                /\ enums = <<>>
                /\ log = <<>>)
    /\ [][wpc = "call" => (wpc' = "recover" /\ pc' = "open" /\ cycle'.passes = 1)]_vars
    /\ [][wpc = "radio" => wpc' = "call"]_vars

\* C16 witness: in the second iteration the probe failed and the radio controller
\* returned an error; the pass is called next
C16_Witness ==
    /\ cycles = 2
    /\ wpc = "call"
    /\ cycle.probe = "fail"
    /\ cycle.radio = "err"

\* C17: in loop mode a pass that ended, restored or failed, is followed by the sleep
\* of one check interval and then by the probe of a new iteration; the process does
\* not exit; an iteration runs at most one pass, and only after its own probe failed.
C17_OnePassPerCycle ==
    /\ [](/\ cycle.passes <= 1
          /\ cycle.recovery # "none" => cycle.passes = 1
          /\ (~once /\ cycles >= 1) => wpc # "exited" /\ exitCode = "running"
          /\ (~once /\ cycle.recovery # "none") => wpc = "sleep"
          /\ cycles >= 2 => ~once /\ cycle.sleptBefore = 60
          /\ wpc = "recover" => cycle.probe = "fail")
    /\ [][(~once /\ wpc = "recover" /\ pc = "done") => (wpc' = "sleep" /\ pc' = "idle")]_vars
    /\ [][wpc = "sleep" =>
             /\ wpc' = "probe"
             /\ cycles' = cycles + 1
             /\ cycle' = [NewCycle EXCEPT !.sleptBefore = 60]]_vars

\* C17 witness: loop mode, the pass of the first iteration failed and main is at its
\* sleep
C17_Witness ==
    /\ ~once
    /\ cycles = 1
    /\ wpc = "sleep"
    /\ cycle.recovery = "failed"

\* C18: with --once the process runs one iteration: one probe at loop level, a pass
\* exactly when that probe failed, then exit with code 0, without sleep and without a
\* second iteration. A non-zero exit code comes only from the elevation step, before
\* the first iteration.
C18_SingleRun ==
    /\ once =>
          /\ cycles <= 1
          /\ wpc # "sleep"
          /\ cycle.sleptBefore = 0
          /\ (wpc = "exited" /\ cycles = 1) =>
                /\ exitCode = "0"
                /\ cycle.probe \in {"ok", "fail"}
                /\ (cycle.passes = 1) = (cycle.probe = "fail")
                /\ (cycle.recovery # "none") = (cycle.probe = "fail")
          /\ (cycle.probe = "ok" \/ cycle.recovery # "none") => wpc = "exited"
    /\ exitCode = "nonzero" => cycles = 0 /\ cycle = NewCycle
    /\ (wpc = "exited") = (exitCode # "running")

\* C18 witness: --once, the probe failed, the pass failed, the process exited with 0
C18_Witness ==
    /\ once
    /\ wpc = "exited"
    /\ exitCode = "0"
    /\ cycle.probe = "fail"
    /\ cycle.recovery = "failed"

\* C19: the process has at most one WLAN session open at any time; a pass starts with
\* a client of its own that holds no session, opens at most one, and has closed it
\* when it returns, so that no session is open while main probes, turns the radio on,
\* sleeps or has exited.
C19_OneSessionAtATime ==
    /\ openSessions \in {0, 1}
    /\ openSessions = (IF handle = "open" THEN 1 ELSE 0)
    /\ wpc # "recover" => openSessions = 0 /\ handle = "unopened" /\ pc = "idle"
    /\ (wpc = "recover" /\ pc = "open") => handle = "unopened" /\ closes = 0
    /\ (wpc = "recover" /\ pc \notin {"open", "done"}) => handle = "open"
    /\ (wpc = "recover" /\ pc = "done") =>
          \/ result = "ErrOpen" /\ handle = "unopened" /\ closes = 0
          \/ result # "ErrOpen" /\ handle = "closed" /\ closes = 1
    /\ ~usedAfterClose

\* C19 witness: the pass of the second iteration has its session open
C19_Witness ==
    /\ cycles = 2
    /\ wpc = "recover"
    /\ handle = "open"
    /\ openSessions = 1
    /\ pc = "connect"

\* C21: when a pass reports success for a profile, the "connected" state its poll saw
\* is the association made by the connect request for that profile, never the
\* association left by an earlier candidate of the interface that connected and
\* failed the verification.
C21_ConnectedIsOwn ==
    (result = "Ok" /\ attempt.polled = "connected") => assoc = restoredVia

\* The commands of try_enable_wlan_adapter, in the order it runs them
EnablerOrder ==
    <<<<"powershell", "Enable-NetAdapter">>>> \o [k \in 1..Len(WLAN_INTERFACE_NAMES) |-> <<"netsh", WLAN_INTERFACE_NAMES[k]>>]

\* C22: the enabler runs PowerShell first, then netsh for Wi-Fi, WLAN, Wireless,
\* Wireless Network Connection in that order; it runs nothing after the first command
\* that succeeds; a command that fails, by its status or because it could not be
\* started, is followed by the next one; it returns true exactly when a command
\* succeeded, and false only after all five failed.
C22_EnablerOrder ==
    /\ Len(adapter.attempts) <= Len(EnablerOrder)
    /\ \A k \in DOMAIN adapter.attempts : adapter.attempts[k].cmd = EnablerOrder[k]
    /\ \A k \in DOMAIN adapter.attempts :
          adapter.attempts[k].out = "success" =>
             /\ k = Len(adapter.attempts)
             /\ adapter.pc = "returned"
             /\ adapter.ret = "true"
    /\ (adapter.pc = "returned") = (adapter.ret # "none")
    /\ adapter.ret = "true" =>
          /\ adapter.attempts # <<>>
          /\ adapter.attempts[Len(adapter.attempts)].out = "success"
    /\ adapter.ret = "false" =>
          /\ Len(adapter.attempts) = Len(EnablerOrder)
          /\ \A k \in DOMAIN adapter.attempts : adapter.attempts[k].out # "success"
    /\ adapter.pc = "netsh" => Len(adapter.attempts) = adapter.i + 1
    /\ adapter.pc = "netsh_run" => Len(adapter.attempts) = adapter.i

\* C22 witness: PowerShell could not be started, the first three netsh commands
\* failed in both ways, the last one succeeded and the enabler returned true
C22_Witness ==
    /\ adapter.ret = "true"
    /\ Len(adapter.attempts) = 5
    /\ adapter.attempts[1].out = "not_started"
    /\ adapter.attempts[2].out = "failed"
    /\ adapter.attempts[3].out = "not_started"
    /\ adapter.attempts[5] = [cmd |-> <<"netsh", "Wireless Network Connection">>, out |-> "success"]

\* C23: a started pass reaches a terminal outcome (success, session-open error,
\* enumeration error, no interface, exhaustion) whatever the platform calls, the
\* enabler and the probe return; on the way it issues at most one connect request per
\* candidate and at most 15 state queries per accepted connect request.
C23_PassTerminates ==
    /\ <>(pc = "done" /\ result \in {"Ok", "ErrOpen", "ErrEnum", "ErrNoInterface", "ErrExhausted"})
    /\ [](/\ IsPrefix(log, plan)
          /\ \A i, j \in DOMAIN plan : i # j => plan[i] # plan[j]
          /\ round <= 15
          /\ round > 0 => attempt.accepted = "accepted")

\* C23 witness: the pass ended exhausted after six connect requests, the last of
\* them polled 15 times
C23_Witness ==
    /\ pc = "done"
    /\ result = "ErrExhausted"
    /\ Len(log) = 6
    /\ round = 15
    /\ attempt.polled = "timeout"

ScanCalls == {"WlanGetProfileList", "WlanScan", "WlanGetAvailableNetworkList"}

\* C20: under ScanOnly, on an interface whose saved-profile query succeeded, the scan
\* is requested, then 2 s are slept, then the visible-network list is read, all
\* before any connect request on that interface, and whatever WlanScan returned; the
\* candidates, and so the connect requests, of the interface are saved profiles that
\* are in the visible set just read. Under All and Explicit there is no scan request,
\* no settle wait and no read of the visible-network list.
C20_ScanBeforeConnect ==
    /\ [](strategy.kind = "ScanOnly" =>
             /\ pc = "scan" => ifaceCalls = {"WlanGetProfileList"} /\ scanResult = "none"
             /\ pc = "scan_settle" =>
                   /\ ifaceCalls = {"WlanGetProfileList", "WlanScan"}
                   /\ scanResult \in {"ok", "err"}
                   /\ sleptSinceCall = 0
             /\ pc = "get_avail" =>
                   /\ ifaceCalls = {"WlanGetProfileList", "WlanScan"}
                   /\ scanResult \in {"ok", "err"}
                   /\ sleptSinceCall = 2
             /\ pc = "filter" => ifaceCalls = ScanCalls /\ available_names.some
             /\ pc \in {"profile_loop", "connect", "poll", "verify"} => ifaceCalls = ScanCalls
             /\ (idx >= 1 /\ RequestsOn(log, ifaces[idx]) # <<>>) => ifaceCalls = ScanCalls
             /\ idx >= 1 => Range(RequestsOn(log, ifaces[idx])) \subseteq Range(profiles))
    /\ [](strategy.kind # "ScanOnly" =>
             /\ pc \notin {"scan", "scan_settle", "get_avail"}
             /\ ifaceCalls \subseteq {"WlanGetProfileList"}
             /\ scanResult = "none"
             /\ available_names = None)
    /\ [][(pc = "get_saved" /\ pc' # "iface_loop") =>
             pc' = (IF strategy.kind = "ScanOnly" THEN "scan" ELSE "filter")]_vars
    /\ [][(pc = "filter" /\ strategy.kind = "ScanOnly") =>
             Range(profiles') = Range(saved) \cap available_names.val]_vars

\* C20 witness: WlanScan failed on the second interface, after a connect request on
\* the first, and the settle wait has elapsed: the visible-network list is read next
C20_Witness ==
    /\ strategy.kind = "ScanOnly"
    /\ pc = "get_avail"
    /\ scanResult = "err"
    /\ sleptSinceCall = 2
    /\ idx = 2
    /\ log # <<>>

====
